---- MODULE Spec2Model ----
(***************************************************************************)
(* A model of the `menu` crate (src/src/lib.rs): the byte-to-line          *)
(* assembler and command dispatcher of Runner, and the parameter           *)
(* resolution function argument_finder.                                    *)
(*                                                                         *)
(* Text is modelled as a sequence of bytes.  A printable ASCII byte is the *)
(* one-character string that shows it ("a", " ", "-", "="); the other      *)
(* bytes are named: "CR" 0x0D, "LF" 0x0A, "BS" 0x08, "DEL" 0x7F, "x00"     *)
(* (NUL), "xC2" and "xA0" (the two bytes of U+00A0, a white-space          *)
(* character that is not ASCII) and "xFF" (a byte no UTF-8 text holds).    *)
(***************************************************************************)
EXTENDS Integers, Sequences, FiniteSets, TLC

VARIABLES
    buffer,     \* Runner.buffer[0..used]: the bytes of the line typed so far
                \* (the code never reads a byte at or beyond `used`: every
                \* read is of buffer[..used], so only that prefix is kept)
    used,       \* Runner.used: the cursor
    menu_index, \* Runner.menu_mgr: the navigation stack, the (1-based) item
                \* index of each sub-menu entered, outermost first
    echo,       \* whether the crate was built with the "echo" feature
    panicked,   \* the last call of process panicked: the Runner is gone
    out,        \* what the last step wrote and called, in order
    lastByte,   \* the byte the last step consumed
    lastLine,   \* the line the last step handed to process_command, as
                \* <<line>>; <<>> when the step completed no line
    prev,       \* of the line completed last: the navigation stack it
                \* started from and its command word (<<>> without one)
    fparams,    \* argument_finder: the item's parameter list
    fargs,      \* argument_finder: the argument list
    fname,      \* argument_finder: the name to find
    fresult,    \* argument_finder: what the call returned ("pending" before)
    pc          \* Runner::process: "loop" while a call is in its while loop,
                \* "idle" between two calls

rvars == <<buffer, used, menu_index, echo, panicked, out, lastByte, lastLine, prev>>
fvars == <<fparams, fargs, fname, fresult>>
vars == <<rvars, fvars, pc>>

----------------------------------------------------------------------------
(* Bounds of the model.                                                    *)

\* longest parameter list argument_finder is given
MaxParams == 2
\* longest argument list argument_finder is given
MaxArgs == 3
\* capacity of the line buffer the caller hands to Runner::new
BufCap == 70
\* capacity of the navigation stack
MaxDepth == 2

----------------------------------------------------------------------------
(* Text helpers: the parts of core::str the code uses.                     *)

\* str::starts_with("--")
StartsWithDashes(s) == Len(s) >= 2 /\ s[1] = "-" /\ s[2] = "-"

\* &s[n..] for a 0-based byte offset n <= s.len()
SliceFrom(s, n) == SubSeq(s, n + 1, Len(s))

\* str::contains(c)
Contains(s, c) == \E i \in 1..Len(s) : s[i] = c

\* s.split(c).next(): the part of s before the first c (all of s without c)
RECURSIVE BeforeFirst(_, _)
BeforeFirst(s, c) ==
    IF s = <<>> \/ Head(s) = c THEN <<>>
    ELSE <<Head(s)>> \o BeforeFirst(Tail(s), c)

\* the bytes 0x80..0xBF, which continue a character, among those modelled
ContinuationBytes == {"xA0"}

\* the bytes taken as text without a look at them
Utf8Unchecked(bytes) == TRUE

\* core::str::from_utf8(bytes).is_ok(): every character is one ASCII byte or
\* the lead byte "xC2" and one continuation byte; "xFF" is in no character
RECURSIVE Utf8Valid(_)
Utf8Valid(bytes) ==
    IF bytes = <<>> THEN TRUE
    ELSE IF Head(bytes) = "xC2"
         THEN /\ Len(bytes) >= 2
              /\ bytes[2] \in ContinuationBytes
              /\ Utf8Valid(SubSeq(bytes, 3, Len(bytes)))
    ELSE IF Head(bytes) \in ContinuationBytes \cup {"xFF"} THEN FALSE
    ELSE Utf8Valid(Tail(bytes))

\* str::is_char_boundary(n) for a 0-based byte offset n
IsCharBoundary(s, n) ==
    \/ n = 0
    \/ n = Len(s)
    \/ n < Len(s) /\ s[n + 1] \notin ContinuationBytes

\* str::split_whitespace() of valid text, as the list of its tokens.  White
\* space is the space and U+00A0 (the bytes "xC2" "xA0").  `cur` is the
\* token being collected.
RECURSIVE SplitFrom(_, _)
SplitFrom(s, cur) ==
    LET flush == IF cur = <<>> THEN <<>> ELSE <<cur>>
    IN IF s = <<>> THEN flush
       ELSE IF Head(s) = " " THEN flush \o SplitFrom(Tail(s), <<>>)
       ELSE IF Head(s) = "xC2" /\ Len(s) >= 2 /\ s[2] = "xA0"
            THEN flush \o SplitFrom(SubSeq(s, 3, Len(s)), <<>>)
       ELSE SplitFrom(Tail(s), Append(cur, Head(s)))

split_whitespace(s) == SplitFrom(s, <<>>)

----------------------------------------------------------------------------
(* Parameter descriptors (enum Parameter) and results of argument_finder.  *)

Kinds == {"Mandatory", "Optional", "Named", "NamedValue"}

Param(kind, name) == [kind |-> kind, parameter_name |-> name]

\* Result<Option<&str>, Error> of argument_finder
ErrNotFound == [tag |-> "Err", val |-> <<>>]
OkNone == [tag |-> "None", val |-> <<>>]
OkSome(v) == [tag |-> "Some", val |-> v]

\* Step 1 of argument_finder: the scan of the parameter list.  `found` is
\* <<>> (None) or <<parameter, index>>; each parameter whose name equals
\* name_to_find overwrites it.
RECURSIVE ScanParamsLast(_, _, _, _, _)
ScanParamsLast(parameters, name_to_find, mandatory_count, optional_count, found) ==
    IF parameters = <<>>
    THEN [found |-> found, mandatory_count |-> mandatory_count]
    ELSE LET param == Head(parameters)
             m == IF param.kind = "Mandatory" THEN mandatory_count + 1 ELSE mandatory_count
             o == IF param.kind = "Optional" THEN optional_count + 1 ELSE optional_count
             idx == CASE param.kind = "Mandatory" -> m
                      [] param.kind = "Optional" -> o
                      [] OTHER -> 0
             f == IF param.parameter_name = name_to_find THEN <<param, idx>> ELSE found
         IN ScanParamsLast(Tail(parameters), name_to_find, m, o, f)

\* a scan that falls back on the first parameter when no name matches
ScanParamsFallback(parameters, name_to_find) ==
    ScanParamsLast(parameters, name_to_find, 0, 0,
                   IF parameters = <<>> THEN <<>> ELSE <<Head(parameters), 1>>)

ScanParams(parameters, name_to_find) ==
    ScanParamsLast(parameters, name_to_find, 0, 0, <<>>)

\* argument_list.iter().filter(|x| !x.starts_with("--"))
Positionals(argument_list) == SelectSeq(argument_list, LAMBDA x : ~StartsWithDashes(x))

\* the idx-th argument of any kind: the filter on "--" forgotten
NthArgument(argument_list, idx) ==
    IF idx >= 1 /\ idx <= Len(argument_list) THEN OkSome(argument_list[idx]) ELSE OkNone

\* Steps 2a and 2b: the idx-th positional argument (1-based), if there is one
NthPositional(argument_list, idx) ==
    LET pos == Positionals(argument_list)
    IN IF idx >= 1 /\ idx <= Len(pos) THEN OkSome(pos[idx]) ELSE OkNone

\* a flag test by prefix: "--name" followed by anything
FindNamedPrefix(argument_list, parameter_name) ==
    IF \E i \in 1..Len(argument_list) :
           /\ StartsWithDashes(argument_list[i])
           /\ Len(argument_list[i]) >= 2 + Len(parameter_name)
           /\ SubSeq(argument_list[i], 3, 2 + Len(parameter_name)) = parameter_name
    THEN OkSome(<<>>)
    ELSE OkNone

\* Step 2c: some argument is "--" followed by exactly the parameter's name
FindNamed(argument_list, parameter_name) ==
    IF \E i \in 1..Len(argument_list) :
           /\ StartsWithDashes(argument_list[i])
           /\ SliceFrom(argument_list[i], 2) = parameter_name
    THEN OkSome(<<>>)
    ELSE OkNone

\* the test of one argument with the length compared by > instead of >=
MatchesNamedValueStrict(arg, parameter_name) ==
    LET name_start == 2
        equals_start == name_start + Len(parameter_name)
        value_start == equals_start + 1
    IN /\ StartsWithDashes(arg)
       /\ Len(arg) > value_start
       /\ SubSeq(arg, equals_start + 1, equals_start + 1) = <<"=">>
       /\ SubSeq(arg, name_start + 1, equals_start) = parameter_name

\* Step 2d, the test of one argument: "--", the name, "=", then the value.
\* (The tokens of the model hold ASCII only, so every offset is a character
\* boundary and str::get is a plain sub-slice.)
MatchesNamedValue(arg, parameter_name) ==
    LET name_start == 2
        equals_start == name_start + Len(parameter_name)
        value_start == equals_start + 1
    IN /\ StartsWithDashes(arg)
       /\ Len(arg) >= value_start
       /\ SubSeq(arg, equals_start + 1, equals_start + 1) = <<"=">>
       /\ SubSeq(arg, name_start + 1, equals_start) = parameter_name

\* Step 2d: the value of the first argument that matches
FindNamedValue(argument_list, parameter_name) ==
    LET hits == {i \in 1..Len(argument_list) :
                     MatchesNamedValue(argument_list[i], parameter_name)}
    IN IF hits = {} THEN OkNone
       ELSE LET first == CHOOSE i \in hits : \A j \in hits : i <= j
            IN OkSome(SliceFrom(argument_list[first], 2 + Len(parameter_name) + 1))

\* the target position of an Optional parameter taken as its own index,
\* the mandatory parameters not counted
OptionalTargetOwn(mandatory_count, optional_idx) == optional_idx

\* Step 2b: the position asked of an Optional parameter
OptionalTarget(mandatory_count, optional_idx) == mandatory_count + optional_idx

\* argument_finder for a Callback item with the given parameter list
argument_finder(parameters, argument_list, name_to_find) ==
    LET scan == ScanParams(parameters, name_to_find)
        found_param == scan.found
    IN IF found_param = <<>> THEN ErrNotFound
       ELSE LET param == found_param[1]
                idx == found_param[2]
            IN CASE param.kind = "Mandatory" ->
                        NthPositional(argument_list, idx)
                 [] param.kind = "Optional" ->
                        NthPositional(argument_list,
                                      OptionalTarget(scan.mandatory_count, idx))
                 [] param.kind = "Named" ->
                        FindNamed(argument_list, param.parameter_name)
                 [] param.kind = "NamedValue" ->
                        FindNamedValue(argument_list, param.parameter_name)

----------------------------------------------------------------------------
(* Inputs of argument_finder.                                              *)

\* parameter names a command declares, and one more that can be asked for
DeclNames == {<<"n">>, <<"n", "x">>}
AskNames == DeclNames \cup {<<"q">>}

\* argument tokens: positionals, flags, flags with a value
FinderTokens ==
    { <<"a">>, <<"b">>,
      <<"-", "-", "n">>,
      <<"-", "-", "n", "=">>,
      <<"-", "-", "n", "=", "v">>,
      <<"-", "-", "n", "=", "=">>,
      <<"-", "-", "n", "x">> }

SeqsUpTo(S, n) == UNION {[1..k -> S] : k \in 0..n}

ParamLists == SeqsUpTo({Param(k, nm) : k \in Kinds, nm \in DeclNames}, MaxParams)
ArgLists == SeqsUpTo(FinderTokens, MaxArgs)

Pending == [tag |-> "pending", val |-> <<>>]

\* the Runner's variables while argument_finder alone is exercised
RunnerIdle ==
    /\ buffer = <<>>
    /\ used = 0
    /\ menu_index = <<>>
    /\ echo = FALSE
    /\ panicked = FALSE
    /\ out = <<>>
    /\ lastByte = "none"
    /\ lastLine = <<>>
    /\ prev = [stack |-> <<>>, word |-> <<>>]
    /\ pc = "idle"

FinderInit ==
    /\ RunnerIdle
    /\ fparams \in ParamLists
    /\ fargs \in ArgLists
    /\ fname \in AskNames
    /\ fresult = Pending

\* one call of argument_finder
Find ==
    /\ fresult = Pending
    /\ fresult' = argument_finder(fparams, fargs, fname)
    /\ UNCHANGED <<fparams, fargs, fname, rvars, pc>>

FinderNext == Find

FinderSpec == FinderInit /\ [][FinderNext]_vars

----------------------------------------------------------------------------
(* The menu tree the Runner is given: Menu, Item, ItemType.                *)

Callback(command, parameters) ==
    [command |-> command, kind |-> "Callback", parameters |-> parameters,
     target |-> "none"]

MenuLink(command, target) ==
    [command |-> command, kind |-> "Menu", parameters |-> <<>>, target |-> target]

\* the reserved words of process_command
HelpWord == <<"h", "e", "l", "p">>
ExitWord == <<"e", "x", "i", "t">>

\* `cp <s> <d> [ <o> ]`
CpItem == Callback(<<"c", "p">>,
                   <<Param("Mandatory", <<"s">>), Param("Mandatory", <<"d">>),
                     Param("Optional", <<"o">>)>>)
\* `run [ --v ] [ --l=N ]`
RunItem == Callback(<<"r", "u", "n">>,
                    <<Param("Named", <<"v">>), Param("NamedValue", <<"l">>)>>)
\* `o [ --v ]`
OItem == Callback(<<"o">>, <<Param("Named", <<"v">>)>>)
\* `g`, without parameters
GItem == Callback(<<"g">>, <<>>)

\* The menus by name.  `entry` and `exit` say whether the menu has the hook.
\* The sub-menu declares items named like the reserved words.
Menus ==
    [root |-> [label |-> <<"r", "t">>,
               items |-> <<CpItem, RunItem, OItem, MenuLink(<<"s", "u", "b">>, "sub")>>,
               entry |-> TRUE, exit |-> TRUE],
     sub  |-> [label |-> <<"s", "b">>,
               items |-> <<GItem, MenuLink(<<"d", "e", "e", "p">>, "deep"),
                           Callback(ExitWord, <<>>), Callback(HelpWord, <<>>)>>,
               entry |-> TRUE, exit |-> TRUE],
     deep |-> [label |-> <<"d", "p">>,
               items |-> <<GItem>>,
               entry |-> FALSE, exit |-> FALSE]]

----------------------------------------------------------------------------
(* menu_manager::MenuManager, the navigation stack.                        *)

\* MenuManager::depth
depth(mi) == Len(mi)

\* MenuManager::get_menu(Some(level)): the menu reached from the root by the
\* first `level` entries of the stack
RECURSIVE MenuAt(_, _)
MenuAt(mi, level) ==
    IF level = 0 THEN "root"
    ELSE Menus[MenuAt(mi, level - 1)].items[mi[level]].target

\* MenuManager::get_menu(None): the current menu
get_menu(mi) == MenuAt(mi, depth(mi))

\* MenuManager::push_menu(index): nothing at the maximum depth
push_menu(mi, index) == IF depth(mi) < MaxDepth THEN Append(mi, index) ELSE mi

\* MenuManager::pop_menu: nothing at the root
pop_menu(mi) == IF mi = <<>> THEN mi ELSE SubSeq(mi, 1, Len(mi) - 1)

----------------------------------------------------------------------------
(* What a step writes to the context and calls, in order.                  *)

\* a write to the context: the kind of text, and the text or word it shows
Out(what, text) == [type |-> "out", id |-> what, args |-> text]

\* a call of an item's callback function with the argument list
Handler(menu, item, args) == [type |-> "handler", id |-> <<menu, item.command>>, args |-> args]

\* a call of the entry or exit function held by menu `owner`, with `menu` as
\* its menu argument
Hook(type, owner, menu) == [type |-> type, id |-> owner, args |-> <<menu>>]

\* the first of a set of indices (where a loop with `break`, or
\* Iterator::find, stops), 0 when the set is empty
FirstIndex(hits) ==
    IF hits = {} THEN 0 ELSE CHOOSE i \in hits : \A j \in hits : i <= j

\* the indices of the items of the menu whose command is the word
ItemsNamed(menu, word) ==
    {i \in 1..Len(Menus[menu].items) : Menus[menu].items[i].command = word}

\* Runner::prompt: the path of the sub-menus, then "> "
RECURSIVE PromptPath(_, _)
PromptPath(mi, i) ==
    IF i >= depth(mi) THEN <<>>
    ELSE (IF i > 1 THEN <<"/">> ELSE <<>>)
         \o <<"/">> \o Menus[MenuAt(mi, i)].label
         \o PromptPath(mi, i + 1)

prompt(mi, newline) ==
    (IF newline THEN <<Out("newline", <<>>)>> ELSE <<>>)
    \o <<Out("prompt", PromptPath(mi, 0) \o <<">", " ">>)>>

----------------------------------------------------------------------------
(* Runner::call_function.                                                  *)

\* capacity of argument_buffer
ArgCap == 16

\* the validation of one argument that begins with "--" against the
\* parameter list, equality taken on the name without any value
FlagKnownByName(arg, parameters) ==
    LET tail == SliceFrom(arg, 2)
    IN \E i \in 1..Len(parameters) :
           /\ parameters[i].kind \in {"Named", "NamedValue"}
           /\ BeforeFirst(tail, "=") = parameters[i].parameter_name

\* the validation of one argument that begins with "--" against the
\* parameter list: it names a Named parameter, or a NamedValue parameter
\* before its first "="
FlagKnown(arg, parameters) ==
    LET tail == SliceFrom(arg, 2)
    IN \E i \in 1..Len(parameters) :
           \/ /\ parameters[i].kind = "Named"
              /\ tail = parameters[i].parameter_name
           \/ /\ parameters[i].kind = "NamedValue"
              /\ Contains(arg, "=")
              /\ BeforeFirst(tail, "=") = parameters[i].parameter_name

\* &command[item.command.len()..]: the line from the byte offset that is the
\* length of the command word
Remainder(command, item) == SliceFrom(command, Len(item.command))

\* every token of the remainder taken as an argument
ArgumentBufferUncut(command, item) == split_whitespace(Remainder(command, item))

\* the tokens that fill argument_buffer: the first ArgCap of the remainder
ArgumentBuffer(command, item) ==
    LET toks == split_whitespace(Remainder(command, item))
    IN SubSeq(toks, 1, IF Len(toks) < ArgCap THEN Len(toks) ELSE ArgCap)

\* the arity test without its lower bound
ArityPassNoLower(positional_arguments, mandatory_parameter_count, positional_parameter_count) ==
    IF positional_arguments > positional_parameter_count THEN "TooMany"
    ELSE "Call"

\* the arity test that follows the loop
ArityPass(positional_arguments, mandatory_parameter_count, positional_parameter_count) ==
    IF positional_arguments < mandatory_parameter_count THEN "Insufficient"
    ELSE IF positional_arguments > positional_parameter_count THEN "TooMany"
    ELSE "Call"

\* the branch "definitely no arguments": the handler with an empty list, or
\* the message
NoArgumentsPath(mandatory_parameter_count, parent_menu, item) ==
    IF mandatory_parameter_count = 0
    THEN [out |-> <<Handler(parent_menu, item, <<>>)>>, panic |-> FALSE]
    ELSE [out |-> <<Out("Insufficient", <<>>)>>, panic |-> FALSE]

\* Runner::call_function: what it writes and calls, and whether it panics.
\* The loop stops at the first argument that begins with "--" and is not
\* known; the arity is tested when the loop ends without such an argument.
call_function(parameters, parent_menu, item, command) ==
    LET mandatory_parameter_count ==
            Len(SelectSeq(parameters, LAMBDA p : p.kind = "Mandatory"))
        positional_parameter_count ==
            Len(SelectSeq(parameters, LAMBDA p : p.kind \in {"Mandatory", "Optional"}))
    IN IF Len(command) >= Len(item.command)
       THEN IF ~IsCharBoundary(command, Len(item.command))
            THEN [out |-> <<>>, panic |-> TRUE]
            ELSE LET args == ArgumentBuffer(command, item)
                     bad == FirstIndex({k \in 1..Len(args) :
                                StartsWithDashes(args[k]) /\ ~FlagKnown(args[k], parameters)})
                     positional_arguments == Len(Positionals(args))
                     verdict == ArityPass(positional_arguments,
                                          mandatory_parameter_count,
                                          positional_parameter_count)
                 IN IF bad # 0
                    THEN [out |-> <<Out("DidNotUnderstand", args[bad])>>, panic |-> FALSE]
                    ELSE IF verdict = "Call"
                    THEN [out |-> <<Handler(parent_menu, item, args)>>, panic |-> FALSE]
                    ELSE [out |-> <<Out(verdict, <<>>)>>, panic |-> FALSE]
       ELSE NoArgumentsPath(mandatory_parameter_count, parent_menu, item)

----------------------------------------------------------------------------
(* Runner::process_command.                                                *)

\* the `help` branch: the long help of an item, or the list of the items
\* with the synthetic `exit` (below the root) and `help` entries
HelpBranch(parts, menu, mi) ==
    IF Len(parts) >= 2
    THEN LET k == FirstIndex(ItemsNamed(menu, parts[2]))
         IN IF k # 0 THEN <<Out("LongHelp", parts[2])>>
            ELSE <<Out("CantHelp", parts[2])>>
    ELSE <<Out("ShortHelp",
               [i \in 1..Len(Menus[menu].items) |-> Menus[menu].items[i].command]
               \o (IF depth(mi) # 0 THEN <<ExitWord>> ELSE <<>>)
               \o <<HelpWord>>)>>

\* the `exit` branch without the pop
ExitBranchNoPop(menu, mi) ==
    [out |-> IF Menus[menu].exit THEN <<Hook("exit", menu, menu)>> ELSE <<>>,
     menu_index |-> mi, panic |-> FALSE]

\* the `exit` branch with the pop first: the exit function of the menu that
\* is current after it
ExitBranchPopFirst(menu, mi) ==
    LET after == get_menu(pop_menu(mi))
    IN [out |-> IF Menus[after].exit THEN <<Hook("exit", after, after)>> ELSE <<>>,
        menu_index |-> pop_menu(mi), panic |-> FALSE]

\* the `exit` branch: the exit function of the current menu, then the pop
ExitBranch(menu, mi) ==
    [out |-> IF Menus[menu].exit THEN <<Hook("exit", menu, menu)>> ELSE <<>>,
     menu_index |-> pop_menu(mi), panic |-> FALSE]

\* the branch of an item that is a sub-menu calling two entry functions:
\* that of the current menu and that of the menu entered
EnterBranchBothHooks(menu, mi, i) ==
    LET target == Menus[menu].items[i].target
    IN [out |-> (IF Menus[menu].entry THEN <<Hook("entry", menu, menu)>> ELSE <<>>)
                \o (IF Menus[target].entry
                    THEN <<Hook("entry", target, target)>> ELSE <<>>),
        menu_index |-> push_menu(mi, i), panic |-> FALSE]

\* the branch of an item that is a sub-menu: the entry function read from
\* get_menu(None), called with `menu`, and then the push of the item's index
EnterBranch(menu, mi, i) ==
    [out |-> IF Menus[get_menu(mi)].entry
             THEN <<Hook("entry", get_menu(mi), menu)>> ELSE <<>>,
     menu_index |-> push_menu(mi, i), panic |-> FALSE]

\* `exit` taken as the reserved word at the root too
ExitIsReservedAnywhere(cmd, mi) == cmd = ExitWord

\* `exit` taken as the reserved word only when the menu has no such item
ExitIsReservedUnlessDeclared(cmd, mi) ==
    cmd = ExitWord /\ depth(mi) # 0 /\ ItemsNamed(get_menu(mi), cmd) = {}

\* whether `exit` is taken as the reserved word
ExitIsReserved(cmd, mi) == cmd = ExitWord /\ depth(mi) # 0

\* Runner::process_command on the bytes buffer[0..used]: what it writes and
\* calls, the navigation stack it leaves, and whether it panics
process_command(bytes, mi) ==
    LET same(o) == [out |-> o, menu_index |-> mi, panic |-> FALSE]
        r == IF ~Utf8Valid(bytes) THEN same(<<Out("NotUtf8", <<>>)>>)
             ELSE LET parts == split_whitespace(bytes)
                  IN IF parts = <<>> THEN same(<<Out("Empty", <<>>)>>)
                     ELSE LET cmd == parts[1]
                              menu == get_menu(mi)
                              i == FirstIndex(ItemsNamed(menu, cmd))
                              item == Menus[menu].items[i]
                          IN IF cmd = HelpWord THEN same(HelpBranch(parts, menu, mi))
                             ELSE IF ExitIsReserved(cmd, mi) THEN ExitBranch(menu, mi)
                             ELSE IF i = 0 THEN same(<<Out("NotFound", cmd)>>)
                             ELSE IF item.kind = "Callback"
                             THEN LET c == call_function(item.parameters, menu, item, bytes)
                                  IN [out |-> c.out, menu_index |-> mi, panic |-> c.panic]
                             ELSE EnterBranch(menu, mi, i)
    IN [out |-> <<Out("newline", <<>>)>> \o r.out,
        menu_index |-> r.menu_index, panic |-> r.panic]

----------------------------------------------------------------------------
(* The bytes the transport delivers.                                       *)

CR == "CR"
LF == "LF"
EraseBytes == {"BS", "DEL"}

Sp(s) == <<" ">> \o s
VFlag == <<"-", "-", "v">>

\* n times " --v"
RECURSIVE VFlags(_)
VFlags(n) == IF n = 0 THEN <<>> ELSE Sp(VFlag) \o VFlags(n - 1)

\* The lines that are typed.  A line can be ended after any of its bytes, so
\* every prefix of these is a line too.
Lines ==
    { <<"c", "p">> \o Sp(<<"a">>) \o Sp(<<"b">>) \o Sp(<<"c">>) \o Sp(<<"d">>),
      <<"c", "p">> \o Sp(<<"a">>) \o Sp(VFlag) \o Sp(<<"b">>),
      Sp(<<"c", "p">>) \o Sp(<<"a">>) \o Sp(<<"b">>),
      <<" ", "xC2", "xA0", "c", "p">> \o Sp(<<"a">>) \o Sp(<<"b">>),
      <<"r", "u", "n">> \o Sp(VFlag) \o Sp(<<"-", "-", "l", "=", "3">>) \o Sp(<<"a">>),
      <<"r", "u", "n">> \o Sp(<<"-", "-", "l", "x", "=", "3">>),
      <<"o">> \o VFlags(ArgCap) \o Sp(<<"-", "-", "z">>) \o Sp(VFlag),
      Sp(<<"o">>) \o VFlags(ArgCap) \o Sp(<<"-", "-", "z">>),
      Sp(<<"c", "p">>) \o Sp(VFlag),
      <<"s", "u", "b">>,
      <<"d", "e", "e", "p">>,
      <<"g">> \o Sp(<<"a">>),
      ExitWord \o Sp(<<"a">>),
      HelpWord \o Sp(<<"c", "p">>),
      HelpWord \o Sp(<<"z">>),
      <<"z", "xFF">> }

\* the byte can be typed next: with it the line is still one of Lines
Typable(b) ==
    \E l \in Lines : /\ Len(l) > Len(buffer)
                     /\ SubSeq(l, 1, Len(buffer) + 1) = Append(buffer, b)

TextBytes == UNION {{l[i] : i \in 1..Len(l)} : l \in Lines}

----------------------------------------------------------------------------
(* Runner::new and Runner::process, one byte at a time.                    *)

NoLine == [stack |-> <<>>, word |-> <<>>]

\* the command word of a line: its first token, <<>> when it has none
CommandWord(line) ==
    IF Utf8Valid(line) /\ split_whitespace(line) # <<>>
    THEN split_whitespace(line)[1] ELSE <<>>

FinderIdle ==
    /\ fparams = <<>>
    /\ fargs = <<>>
    /\ fname = <<>>
    /\ fresult = [tag |-> "pending", val |-> <<>>]

\* Runner::new: the entry function of the root menu, then the first prompt
\* Runner::new
RunnerNew ==
    /\ buffer = <<>>
    /\ used = 0
    /\ menu_index = <<>>
    /\ echo \in BOOLEAN
    /\ panicked = FALSE
    /\ out = (IF Menus["root"].entry THEN <<Hook("entry", "root", "root")>> ELSE <<>>)
             \o prompt(<<>>, TRUE)
    /\ lastByte = "none"
    /\ lastLine = <<>>
    /\ prev = NoLine
    /\ FinderIdle

\* Runner::new, and then one call of process that is given every byte
Init ==
    /\ RunnerNew
    /\ pc = "loop"

\* a step that completes no line
NeedMore(b) ==
    /\ lastByte' = b
    /\ lastLine' = <<>>
    /\ UNCHANGED <<menu_index, echo, panicked, prev, fvars, pc>>

\* the cursor after byte 0x0A, when that byte discards what was typed
SkipDiscards(n) == 0

\* the cursor after byte 0x0A, when that byte takes the last byte back
SkipErases(n) == IF n > 0 THEN n - 1 ELSE 0

\* the cursor after byte 0x0A: `continue` leaves it
SkipKeeps(n) == n

\* byte 0x0A: skipped
ProcessLF ==
    /\ pc = "loop"
    /\ ~panicked
    /\ NeedMore(LF)
    /\ out' = <<>>
    /\ used' = SkipKeeps(used)
    /\ buffer' = SubSeq(buffer, 1, used')

\* the cursor after a completed line, when it is left where it was
CursorKept(n) == n

\* the cursor after a completed line: self.used = 0
CursorReset(n) == 0

\* byte 0x0D: the line is handed to process_command, then the cursor is
\* reset and the prompt is written.  When process_command panics nothing
\* after it runs.
ProcessCR ==
    /\ pc = "loop"
    /\ ~panicked
    /\ LET line == SubSeq(buffer, 1, used)
           r == process_command(line, menu_index)
           shown == IF echo THEN <<>> ELSE <<Out("echo", <<CR>> \o line)>>
       IN /\ lastByte' = CR
          /\ lastLine' = <<line>>
          /\ prev' = [stack |-> menu_index, word |-> CommandWord(line)]
          /\ IF r.panic
             THEN /\ panicked' = TRUE
                  /\ out' = shown \o r.out
                  /\ UNCHANGED <<buffer, used, menu_index>>
             ELSE /\ panicked' = FALSE
                  /\ menu_index' = r.menu_index
                  /\ used' = CursorReset(used)
                  /\ buffer' = SubSeq(buffer, 1, used')
                  /\ out' = shown \o r.out \o prompt(r.menu_index, TRUE)
    /\ UNCHANGED <<echo, fvars, pc>>

\* an erase byte with the cursor at zero erasing as well
CanEraseAtZero(n) == n >= 0

\* whether there is a byte to erase: self.used > 0
CanErase(n) == n > 0

\* a buffer taken to have room for one byte more than it has
HasRoomOffByOne(n) == n <= BufCap

\* whether the buffer has room: self.used < self.buffer.len()
HasRoom(n) == n < BufCap

\* byte 0x08 or 0x7F: the last byte is erased, if there is one
ProcessErase ==
    /\ pc = "loop"
    /\ ~panicked
    /\ \E b \in EraseBytes :
        /\ NeedMore(b)
        /\ IF CanErase(used)
           THEN /\ out' = <<Out("erase", <<"BS", " ", "BS">>)>>
                /\ used' = used - 1
                /\ buffer' = SubSeq(buffer, 1, used - 1)
           ELSE /\ out' = <<>>
                /\ UNCHANGED <<buffer, used>>

\* any other byte below the capacity: stored at the cursor
ProcessStore ==
    /\ pc = "loop"
    /\ ~panicked
    /\ HasRoom(used)
    /\ \E b \in TextBytes :
        /\ Typable(b)
        /\ NeedMore(b)
        /\ buffer' = Append(buffer, b)
        /\ used' = used + 1
        /\ out' = IF echo
                  THEN IF Utf8Valid(buffer')
                       THEN <<Out("cr", <<CR>>)>> \o prompt(menu_index, FALSE)
                            \o <<Out("text", buffer')>>
                       ELSE <<>>
                  ELSE <<>>

\* any other byte at the capacity: dropped with a notice
ProcessOverflow ==
    /\ pc = "loop"
    /\ ~panicked
    /\ ~HasRoom(used)
    /\ \E b \in TextBytes :
        /\ Typable(b)
        /\ NeedMore(b)
        /\ out' = <<Out("Overflow", <<>>)>>
        /\ UNCHANGED <<buffer, used>>

Next ==
    \/ ProcessLF
    \/ ProcessCR
    \/ ProcessErase
    \/ ProcessStore
    \/ ProcessOverflow

Spec == Init /\ [][Next]_vars

----------------------------------------------------------------------------
(* Runner::process called again and again, each call given the bytes that  *)
(* are ready.                                                              *)

\* the cursor at the start of a call, when a call starts a line afresh
CursorAtCallZero(n) == 0

\* the cursor at the start of a call: `used` is a field of the Runner and
\* process begins with the while loop
CursorAtCall(n) == n

\* Runner::new, no call of process yet
BatchInit ==
    /\ RunnerNew
    /\ pc = "idle"

\* process is called
ProcessCall ==
    /\ pc = "idle"
    /\ ~panicked
    /\ pc' = "loop"
    /\ used' = CursorAtCall(used)
    /\ buffer' = SubSeq(buffer, 1, used')
    /\ UNCHANGED <<menu_index, echo, panicked, out, lastByte, lastLine, prev, fvars>>

\* read_ready() is false: process returns
ProcessReturn ==
    /\ pc = "loop"
    /\ ~panicked
    /\ pc' = "idle"
    /\ UNCHANGED <<rvars, fvars>>

BatchNext ==
    \/ ProcessCall
    \/ ProcessReturn
    \/ ProcessLF
    \/ ProcessCR
    \/ ProcessErase
    \/ ProcessStore
    \/ ProcessOverflow

BatchSpec == BatchInit /\ [][BatchNext]_vars

----------------------------------------------------------------------------
(* Properties of argument_finder, checked under FinderSpec.                *)

Dashes == <<"-", "-">>

\* the parameters of the list that carry the name
Carriers(parameters, name) ==
    {i \in 1..Len(parameters) : parameters[i].parameter_name = name}

\* the name asked for is declared by exactly one parameter, of this kind
AskedIs(kind) ==
    /\ fresult # Pending
    /\ Cardinality(Carriers(fparams, fname)) = 1
    /\ \A i \in Carriers(fparams, fname) : fparams[i].kind = kind

\* how many parameters of the kind stand at or before position i
CountUpTo(parameters, kind, i) ==
    Cardinality({j \in 1..i : parameters[j].kind = kind})

\* the tokens of the argument list that do not begin with "--", in order
NonFlags(argument_list) ==
    LET keep == {i \in 1..Len(argument_list) :
                    ~(Len(argument_list[i]) >= 2
                      /\ SubSeq(argument_list[i], 1, 2) = Dashes)}
        RECURSIVE Pick(_)
        Pick(i) == IF i > Len(argument_list) THEN <<>>
                   ELSE IF i \in keep THEN <<argument_list[i]>> \o Pick(i + 1)
                   ELSE Pick(i + 1)
    IN Pick(1)

\* the n-th token that does not begin with "--", or absent
NthNonFlag(argument_list, n) ==
    IF n <= Len(NonFlags(argument_list))
    THEN OkSome(NonFlags(argument_list)[n]) ELSE OkNone

\* C4: argument_finder called with a name that no declared parameter
\* carries returns Err(NotFound), whatever the parameters and tokens are.
C4_UnknownName ==
    (fresult # Pending /\ Carriers(fparams, fname) = {}) => fresult = ErrNotFound

\* an undeclared name was asked of a non-empty parameter list and tokens
C4_Witness ==
    /\ fresult = ErrNotFound
    /\ Carriers(fparams, fname) = {}
    /\ Len(fparams) = MaxParams
    /\ Len(fargs) = MaxArgs

\* C5: for the Mandatory parameter that is the k-th Mandatory parameter of
\* the list (its name declared once), argument_finder returns the k-th token
\* that does not begin with "--" when there are k of them, absent otherwise.
C5_MandatoryKth ==
    AskedIs("Mandatory") =>
        \A i \in Carriers(fparams, fname) :
            fresult = NthNonFlag(fargs, CountUpTo(fparams, "Mandatory", i))

\* the second Mandatory parameter is found behind a flag token
C5_Witness ==
    /\ AskedIs("Mandatory")
    /\ \E i \in Carriers(fparams, fname) : CountUpTo(fparams, "Mandatory", i) = 2
    /\ Len(fargs) >= 2 /\ Len(NonFlags(fargs)) < Len(fargs)
    /\ fresult.tag = "Some"

\* C6: for the Optional parameter that is the k-th Optional parameter (its
\* name declared once), with M Mandatory parameters anywhere in the list,
\* argument_finder returns the (M+k)-th token that does not begin with "--"
\* when it exists, absent otherwise.
C6_OptionalKth ==
    AskedIs("Optional") =>
        \A i \in Carriers(fparams, fname) :
            fresult = NthNonFlag(fargs,
                                 CountUpTo(fparams, "Mandatory", Len(fparams))
                                 + CountUpTo(fparams, "Optional", i))

\* an Optional parameter declared before a Mandatory one gets the second
\* positional token
C6_Witness ==
    /\ AskedIs("Optional")
    /\ \E i \in Carriers(fparams, fname) :
           /\ CountUpTo(fparams, "Mandatory", i) = 0
           /\ CountUpTo(fparams, "Mandatory", Len(fparams)) = 1
    /\ fresult.tag = "Some"

\* the token that spells the NamedValue parameter `name` with value v
Encode(name, v) == Dashes \o name \o <<"=">> \o v

\* the token is "--name=" followed by some value
SpellsValueOf(tok, name) ==
    /\ Len(tok) >= Len(name) + 3
    /\ tok = Encode(name, SubSeq(tok, Len(name) + 4, Len(tok)))

\* values a flag can carry, the empty one included
FlagValues == {<<>>, <<"v">>, <<"=">>}

\* C7: for the NamedValue parameter asked for (its name declared once), when
\* the first token of the form "--name=<value>" is Encode(name, v),
\* argument_finder returns exactly v, the empty v included; with no token of
\* that form (a bare "--name", another name) it returns absent.
C7_NamedValueRoundTrip ==
    AskedIs("NamedValue") =>
        /\ \A i \in 1..Len(fargs) : \A v \in FlagValues :
               (/\ fargs[i] = Encode(fname, v)
                /\ \A j \in 1..(i - 1) : ~SpellsValueOf(fargs[j], fname))
               => fresult = OkSome(v)
        /\ (\A i \in 1..Len(fargs) : ~SpellsValueOf(fargs[i], fname))
               => fresult = OkNone

\* the empty value is recovered from "--n=" standing behind a bare "--n"
C7_Witness ==
    /\ AskedIs("NamedValue")
    /\ Len(fargs) = 2
    /\ fargs[1] = Dashes \o fname
    /\ fargs[2] = Encode(fname, <<>>)
    /\ fresult = OkSome(<<>>)

\* C8: for the Named parameter asked for (its name declared once),
\* argument_finder returns the empty value exactly when some token equals
\* "--name", and absent otherwise.
C8_NamedPresence ==
    AskedIs("Named") =>
        fresult = IF \E i \in 1..Len(fargs) : fargs[i] = Dashes \o fname
                  THEN OkSome(<<>>) ELSE OkNone

\* a Named parameter is absent although "--name=v" and "--namex" are given
C8_Witness ==
    /\ AskedIs("Named")
    /\ \E i \in 1..Len(fargs) : fargs[i] = Encode(fname, <<"v">>)
    /\ \E i \in 1..Len(fargs) : fargs[i] = Dashes \o fname \o <<"x">>
    /\ fresult = OkNone

----------------------------------------------------------------------------
(* Properties of the Runner, checked under Spec.                           *)

\* the last step wrote the text of this kind
HasOut(what) == \E i \in 1..Len(out) : out[i].type = "out" /\ out[i].id = what

\* the calls of the last step of one type ("handler", "entry", "exit")
Calls(type) == SelectSeq(out, LAMBDA e : e.type = type)

\* the last step completed a line without a panic
LineDone == lastByte = CR /\ ~panicked /\ lastLine # <<>>

\* the line the last step completed, and the menu it was typed in
TheLine == lastLine[1]
TheMenu == get_menu(prev.stack)

\* the first item of the menu whose command is the word
ItemNamed(menu, word) ==
    Menus[menu].items[CHOOSE i \in ItemsNamed(menu, word) :
                          \A j \in ItemsNamed(menu, word) : i <= j]

\* the word is taken as a reserved word at this navigation stack
Reserved(word, stack) == word = HelpWord \/ (word = ExitWord /\ stack # <<>>)

\* the word names an item of this kind in the menu at this navigation stack
Names(word, stack, kind) ==
    /\ word # <<>>
    /\ ~Reserved(word, stack)
    /\ ItemsNamed(get_menu(stack), word) # {}
    /\ ItemNamed(get_menu(stack), word).kind = kind

\* the last step completed a line whose command word names a callback item
CallbackLine == LineDone /\ Names(prev.word, prev.stack, "Callback")

\* that item, its Mandatory and its Mandatory+Optional parameter counts
TheItem == ItemNamed(TheMenu, prev.word)
CountKinds(parameters, kinds) ==
    Cardinality({i \in 1..Len(parameters) : parameters[i].kind \in kinds})
TheM == CountKinds(TheItem.parameters, {"Mandatory"})
TheP == CountKinds(TheItem.parameters, {"Mandatory", "Optional"})

\* the tokens of the line that follow the command word
TokensAfterWord == Tail(split_whitespace(TheLine))

\* the first n elements of a sequence
Take(seq, n) == SubSeq(seq, 1, IF Len(seq) < n THEN Len(seq) ELSE n)

\* C1: for a line of a callback command with M Mandatory and P
\* Mandatory+Optional parameters: fewer than M non-flag argument tokens give
\* "insufficient arguments" and no call of the handler, more than P give
\* "too many arguments" and no call, and the handler is called only with
\* M <= count <= P.
C1_Arity ==
    CallbackLine =>
        LET n == Len(NonFlags(TokensAfterWord))
        IN /\ n < TheM => (HasOut("Insufficient") /\ Calls("handler") = <<>>)
           /\ n > TheP => (HasOut("TooMany") /\ Calls("handler") = <<>>)
           /\ Calls("handler") # <<>> => (TheM <= n /\ n <= TheP)

\* the token is "--n" for a declared Named parameter n, or "--n=<anything>"
\* for a declared NamedValue parameter n
Recognized(tok, parameters) ==
    \E i \in 1..Len(parameters) :
        \/ /\ parameters[i].kind = "Named"
           /\ tok = Dashes \o parameters[i].parameter_name
        \/ /\ parameters[i].kind = "NamedValue"
           /\ SpellsValueOf(tok, parameters[i].parameter_name)

\* the token begins with "--" and is not recognized
BadFlag(tok, parameters) ==
    /\ Len(tok) >= 2
    /\ SubSeq(tok, 1, 2) = Dashes
    /\ ~Recognized(tok, parameters)

\* C2, as stated in the specification: a line of a callback command with any unrecognized "--"
\* token after the command word is aborted with "did not understand" and
\* the handler is not called.
C2_AnyBadFlagAborts ==
    (CallbackLine /\ \E i \in 1..Len(TokensAfterWord) :
                         BadFlag(TokensAfterWord[i], TheItem.parameters))
    => (HasOut("DidNotUnderstand") /\ Calls("handler") = <<>>)

\* C2, amended: a line of a callback command with an unrecognized "--" token
\* among the tokens that fill the argument array (at most ArgCap of them) is
\* aborted with "did not understand" and the handler is not called.
C2_KeptBadFlagAborts ==
    (CallbackLine /\ \E i \in 1..Len(ArgumentBuffer(TheLine, TheItem)) :
                         BadFlag(ArgumentBuffer(TheLine, TheItem)[i], TheItem.parameters))
    => (HasOut("DidNotUnderstand") /\ Calls("handler") = <<>>)

\* a NamedValue flag without "=" follows a recognized flag and aborts the
\* line
C2_Witness ==
    /\ CallbackLine
    /\ Len(TokensAfterWord) = 2
    /\ ~BadFlag(TokensAfterWord[1], TheItem.parameters)
    /\ TokensAfterWord[2] = <<"-", "-", "l">>
    /\ HasOut("DidNotUnderstand")
    /\ Calls("handler") = <<>>

\* C3: the argument list a handler is called with is the tokens that follow
\* the command word in the line, in order, cut to ArgCap, also for a line
\* that begins with white space.
C3_HandlerArgs ==
    CallbackLine =>
        \A i \in 1..Len(Calls("handler")) :
            Calls("handler")[i].args = Take(TokensAfterWord, ArgCap)

\* C9: after a completed line (a 0x0D byte processed) the cursor is zero,
\* whatever the line did: a handler, a menu entered or left, help, an error.
C9_CursorReset ==
    (lastByte = CR /\ ~panicked) => (used = 0 /\ buffer = <<>>)

\* a line of several bytes ended in an arity error and the cursor is zero
C9_Witness ==
    /\ LineDone
    /\ Len(TheLine) > 2
    /\ HasOut("TooMany")
    /\ used = 0

\* the step completes a line (it consumes 0x0D without a panic)
CompletesLine == lastByte' = CR /\ ~panicked' /\ lastLine' # <<>>

\* C10: a line that names a menu-link command, typed at a depth below the
\* maximum, followed by a line `exit` leaves the navigation stack as it was
\* before the two lines; a line whose command word is `exit` at depth 0,
\* the root menu having no item of that name, pops nothing, calls no exit
\* function and is reported as not found.
C10_EnterExit ==
    [][CompletesLine =>
        /\ (/\ Names(prev.word, prev.stack, "Menu")
            /\ depth(prev.stack) < MaxDepth
            /\ prev'.word = ExitWord)
           => menu_index' = prev.stack
        /\ (/\ prev'.word = ExitWord
            /\ prev'.stack = <<>>
            /\ ItemsNamed("root", ExitWord) = {})
           => (/\ menu_index' = <<>>
               /\ Calls("exit")' = <<>>
               /\ HasOut("NotFound")')]_vars

\* a sub-menu was entered from depth 1 by the line before, and `exit` is
\* typed and about to be completed
C10_Witness ==
    /\ Names(prev.word, prev.stack, "Menu")
    /\ depth(prev.stack) = 1
    /\ depth(menu_index) = 2
    /\ SubSeq(buffer, 1, used) = ExitWord
    /\ ~panicked

\* the last step completed a line whose command word names a sub-menu item,
\* typed at a depth below the maximum
MenuLine ==
    /\ LineDone
    /\ Names(prev.word, prev.stack, "Menu")
    /\ depth(prev.stack) < MaxDepth

\* the menu that item leads to
TheTarget == TheItem.target

\* C11: a line that names a menu-link command calls the entry function of
\* the menu being entered (none when that menu has none), not that of the
\* menu the line was typed in; the target becomes the current menu and the
\* depth grows by one.
C11_EntryHookOfTarget ==
    MenuLine =>
        /\ get_menu(menu_index) = TheTarget
        /\ depth(menu_index) = depth(prev.stack) + 1
        /\ Calls("entry") = IF Menus[TheTarget].entry
                            THEN <<Hook("entry", TheTarget, TheTarget)>>
                            ELSE <<>>

\* the entry function of the root menu is among the calls of the last step
RootEntryCalled ==
    \E i \in 1..Len(out) : out[i].type = "entry" /\ out[i].id = "root"

\* C12: the entry function of the root menu is called once by Runner::new
\* and by no step after it, also not when a sub-menu is entered from the
\* root.
C12_RootEntryOnce ==
    /\ lastByte = "none" => Calls("entry") = <<Hook("entry", "root", "root")>>
    /\ lastByte # "none" => ~RootEntryCalled

\* C13: the exit function of the root menu is never called.
C13_NoRootExit ==
    \A i \in 1..Len(out) : out[i].type = "exit" => out[i].id # "root"

\* `exit` typed in the first sub-menu called that menu's exit function and
\* led back to the root menu, which has an exit function of its own
C13_Witness ==
    /\ LineDone
    /\ prev.word = ExitWord
    /\ depth(prev.stack) = 1
    /\ menu_index = <<>>
    /\ Menus["root"].exit
    /\ Calls("exit") = <<Hook("exit", TheMenu, TheMenu)>>

\* the built-in help was written
HelpWritten == HasOut("ShortHelp") \/ HasOut("LongHelp") \/ HasOut("CantHelp")

\* C14: a line whose command word is `help` is handled as the built-in
\* help, and a line whose command word is `exit` at depth > 0 as the
\* built-in exit, also when the menu declares an item of that name; the
\* item's handler or sub-menu is not reached.
C14_ReservedWordsFirst ==
    /\ (LineDone /\ prev.word = HelpWord)
       => (/\ HelpWritten
           /\ menu_index = prev.stack
           /\ Calls("handler") = <<>> /\ Calls("entry") = <<>> /\ Calls("exit") = <<>>)
    /\ (LineDone /\ prev.word = ExitWord /\ prev.stack # <<>>)
       => (/\ menu_index = SubSeq(prev.stack, 1, Len(prev.stack) - 1)
           /\ Calls("handler") = <<>> /\ Calls("entry") = <<>>
           /\ ~HasOut("NotFound"))

\* `exit` was typed in a menu that declares items named `exit` and `help`,
\* and the menu was left
C14_Witness ==
    /\ LineDone
    /\ prev.word = ExitWord
    /\ prev.stack # <<>>
    /\ ItemsNamed(TheMenu, ExitWord) # {}
    /\ ItemsNamed(TheMenu, HelpWord) # {}
    /\ depth(menu_index) = depth(prev.stack) - 1
    /\ Calls("handler") = <<>>

\* what the erase sequence looks like on the output
EraseSequence == Out("erase", <<"BS", " ", "BS">>)

\* the events of a type among those of the next state
CallsNext(type) == SelectSeq(out', LAMBDA e : e.type = type)

\* no handler and no entry or exit function is called in the step
NoCallsNext ==
    /\ CallsNext("handler") = <<>>
    /\ CallsNext("entry") = <<>>
    /\ CallsNext("exit") = <<>>

\* a step that takes byte 0x08 or 0x7F
ErasesStep ==
    /\ lastByte' \in EraseBytes
    /\ IF used = 0
       THEN /\ out' = <<>>
            /\ UNCHANGED <<buffer, used>>
       ELSE /\ out' = <<EraseSequence>>
            /\ used' = used - 1
            /\ buffer' = SubSeq(buffer, 1, used - 1)
    /\ lastLine' = <<>>
    /\ NoCallsNext
    /\ UNCHANGED <<menu_index, prev>>

\* C15: on byte 0x08 or 0x7F with the cursor at zero nothing is written and
\* cursor and buffer stay; with the cursor at n > 0 exactly one erase
\* sequence BS SPACE BS is written and the cursor becomes n - 1.  No line is
\* completed and no handler or hook is called.
C15_Erase == [][lastByte' \in EraseBytes => ErasesStep]_vars

\* the only stored byte was erased: one erase sequence, empty buffer
C15_Witness ==
    /\ lastByte \in EraseBytes
    /\ out = <<EraseSequence>>
    /\ used = 0
    /\ buffer = <<>>

\* the bytes with a meaning of their own
ControlBytes == {CR, LF} \cup EraseBytes

\* a step that takes an ordinary byte
StoresOrDrops ==
    IF used < BufCap
    THEN /\ used' = used + 1
         /\ Len(buffer') = used'
         /\ buffer'[used'] = lastByte'
         /\ SubSeq(buffer', 1, used) = SubSeq(buffer, 1, used)
    ELSE /\ UNCHANGED <<buffer, used>>
         /\ \E i \in 1..Len(out') : out'[i] = Out("Overflow", <<>>)

\* C16: the cursor stays within 0..capacity; an ordinary byte below the
\* capacity is stored at the cursor and advances it by one, an ordinary
\* byte at the capacity changes neither buffer nor cursor and is answered
\* with the overflow notice, and the 0x0D that follows hands over just the
\* bytes in the buffer, at most capacity of them.
C16_CursorWithinCapacity ==
    /\ [](used \in 0..BufCap /\ Len(buffer) = used)
    /\ [][/\ lastByte' \notin ControlBytes /\ lastByte' # "none" => StoresOrDrops
          /\ lastByte' = CR => /\ lastLine' = <<SubSeq(buffer, 1, used)>>
                               /\ Len(lastLine'[1]) <= BufCap]_vars

\* a byte arrived with the buffer full and was answered with the notice
C16_Witness ==
    /\ lastByte \notin ControlBytes
    /\ used = BufCap
    /\ Len(buffer) = BufCap
    /\ out = <<Out("Overflow", <<>>)>>

\* a byte sequence that is not UTF-8: a byte that is in no character, a
\* lead byte without its continuation byte, or a continuation byte without
\* its lead byte
NotText(s) ==
    \E i \in 1..Len(s) :
        \/ s[i] = "xFF"
        \/ s[i] = "xC2" /\ (i = Len(s) \/ s[i + 1] # "xA0")
        \/ s[i] = "xA0" /\ (i = 1 \/ s[i - 1] # "xC2")

\* nothing was called in the last step
NoCalls ==
    /\ Calls("handler") = <<>>
    /\ Calls("entry") = <<>>
    /\ Calls("exit") = <<>>

\* C17: when 0x0D arrives while the bytes in the buffer are not UTF-8 text,
\* the 'not valid text' message is written, no handler and no entry or exit
\* function is called, the menu stack stays, and the cursor is back at zero.
C17_NotTextRejected ==
    (lastByte = CR /\ lastLine # <<>> /\ NotText(lastLine[1])) =>
        /\ ~panicked
        /\ HasOut("NotUtf8")
        /\ NoCalls
        /\ menu_index = prev.stack
        /\ used = 0

\* a line with a byte that is in no character was completed in a sub-menu
C17_Witness ==
    /\ LineDone
    /\ NotText(TheLine)
    /\ HasOut("NotUtf8")
    /\ prev.stack # <<>>
    /\ menu_index = prev.stack
    /\ used = 0

\* the step hands the bytes in the buffer to process_command, once
DispatchesBuffer == lastLine' = <<SubSeq(buffer, 1, used)>>

\* the step hands nothing to process_command
DispatchesNothing == lastLine' = <<>>

\* C18, as stated in the specification: a command line is dispatched once
\* when 0x0D ends it, when 0x0A alone ends it, and when 0x0D 0x0A ends it,
\* the 0x0A after 0x0D completing no further line.
C18_AnyEndingAccepted ==
    [][/\ lastByte' = CR => DispatchesBuffer
       /\ (lastByte' = LF /\ lastByte = CR) => DispatchesNothing
       /\ (lastByte' = LF /\ lastByte # CR /\ used > 0) => DispatchesBuffer]_vars

\* C18: a command line is dispatched once by the 0x0D that ends it, alone
\* or followed by 0x0A; every 0x0A is skipped: it completes no line, writes
\* nothing and leaves buffer, cursor and menu stack as they are, so the
\* bytes before a lone 0x0A wait for a 0x0D.
C18_OnlyCRTerminates ==
    [][/\ lastByte' = CR => DispatchesBuffer
       /\ lastByte' = LF => /\ DispatchesNothing
                            /\ out' = <<>>
                            /\ UNCHANGED <<buffer, used, menu_index, prev>>]_vars

\* a whole command line followed by 0x0A alone is still in the buffer
C18_Witness ==
    /\ lastByte = LF
    /\ lastLine = <<>>
    /\ out = <<>>
    /\ used > 0
    /\ buffer \in Lines
    /\ Names(CommandWord(buffer), menu_index, "Callback")

\* the last step took the 0x0D that ends a line
LineEnded == lastByte = CR /\ lastLine # <<>>

\* the argument tokens of the line that count: the first ArgCap
CountedTokens == Take(TokensAfterWord, ArgCap)

\* the line is in error as the user typed it: not text, empty, an unknown
\* command word, or a callback command with an unrecognized flag or with
\* too few or too many non-flag arguments
UserInputError ==
    /\ LineEnded
    /\ \/ NotText(TheLine)
       \/ /\ ~NotText(TheLine)
          /\ \/ split_whitespace(TheLine) = <<>>
             \/ /\ prev.word # <<>>
                /\ ~Reserved(prev.word, prev.stack)
                /\ ItemsNamed(TheMenu, prev.word) = {}
             \/ /\ Names(prev.word, prev.stack, "Callback")
                /\ \/ \E i \in 1..Len(CountedTokens) :
                          BadFlag(CountedTokens[i], TheItem.parameters)
                   \/ Len(NonFlags(CountedTokens)) < TheM
                   \/ Len(NonFlags(CountedTokens)) > TheP

\* C19: a completed line that is a user-input error (unknown command, too
\* few or too many arguments, unrecognized flag, empty line, bytes that are
\* not text) leaves the menu stack as it was, calls no handler and no entry
\* or exit function, and leaves the interpreter running with the cursor at
\* zero.
C19_ErrorLineChangesNothing ==
    UserInputError =>
        /\ ~panicked
        /\ menu_index = prev.stack
        /\ NoCalls
        /\ used = 0

\* the shortest beginning of the line that holds its first k tokens
UpToToken(line, k) ==
    LET first == Take(split_whitespace(line), k)
        cut == CHOOSE n \in 0..Len(line) :
                   /\ split_whitespace(SubSeq(line, 1, n)) = first
                   /\ \A m \in 0..(n - 1) :
                          split_whitespace(SubSeq(line, 1, m)) # first
    IN SubSeq(line, 1, cut)

\* the line without what follows its ArgCap-th argument token
Truncated == UpToToken(TheLine, 1 + ArgCap)

\* what a callback line came to: the handler calls and the error messages
Decisions(events) ==
    SelectSeq(events, LAMBDA e :
        \/ e.type = "handler"
        \/ e.type = "out" /\ e.id \in {"DidNotUnderstand", "Insufficient", "TooMany"})

\* the line of a callback command has more argument tokens than ArgCap
LongCallbackLine == CallbackLine /\ Len(TokensAfterWord) > ArgCap

\* C20: a handler is never called with more than ArgCap arguments; when the
\* line has more than ArgCap argument tokens, those after the ArgCap-th
\* raise no error and take no part in flag validation or in the count: the
\* line comes to what the same line without them comes to.
C20_ArgumentsCapped ==
    /\ \A i \in 1..Len(Calls("handler")) : Len(Calls("handler")[i].args) <= ArgCap
    /\ LongCallbackLine =>
           Decisions(out) = Decisions(process_command(Truncated, prev.stack).out)

\* the token after the ArgCap-th is a flag nobody declared, and the handler
\* was called with the ArgCap tokens before it
C20_Witness ==
    /\ LongCallbackLine
    /\ BadFlag(TokensAfterWord[ArgCap + 1], TheItem.parameters)
    /\ Len(Calls("handler")) = 1
    /\ Calls("handler")[1].args = Take(TokensAfterWord, ArgCap)
    /\ ~HasOut("DidNotUnderstand")

\* the pieces of a text between the occurrences of a byte, empty pieces left
\* out; `cur` is the piece being collected
RECURSIVE PiecesFrom(_, _, _)
PiecesFrom(s, c, cur) ==
    LET flush == IF cur = <<>> THEN <<>> ELSE <<cur>>
    IN IF s = <<>> THEN flush
       ELSE IF Head(s) = c THEN flush \o PiecesFrom(Tail(s), c, <<>>)
       ELSE PiecesFrom(Tail(s), c, Append(cur, Head(s)))

\* the labels a prompt shows: what stands between the "/" before "> "
ShownLabels(text) == PiecesFrom(BeforeFirst(text, ">"), "/", <<>>)

\* the labels of the sub-menus entered, the current menu's last
EnteredLabels(mi) == [level \in 1..depth(mi) |-> Menus[MenuAt(mi, level)].label]

\* C21: at depth d a prompt shows the labels of the d sub-menus entered, in
\* the order they were entered and the current menu's last, and not the
\* label of the root menu; at depth 0 it is just "> ".
C21_PromptShowsEntered ==
    \A i \in 1..Len(out) :
        (out[i].type = "out" /\ out[i].id = "prompt") =>
            /\ ShownLabels(out[i].args) = EnteredLabels(menu_index)
            /\ menu_index = <<>> => out[i].args = <<">", " ">>

\* the last step completed a line whose command word is `exit`, typed below
\* the root
ExitLine == LineDone /\ prev.word = ExitWord /\ prev.stack # <<>>

\* C22: a line whose command word is `exit` at depth d > 0 calls the exit
\* function of the menu being left, if it has one, once and with the stack
\* not yet popped (the function is handed the menu that is being left);
\* after the line the depth is d - 1, and the line calls no entry function
\* and no handler.
C22_ExitHookOfLeftMenu ==
    ExitLine =>
        /\ Calls("exit") = IF Menus[TheMenu].exit
                           THEN <<Hook("exit", TheMenu, TheMenu)>>
                           ELSE <<>>
        /\ depth(menu_index) = depth(prev.stack) - 1
        /\ menu_index = SubSeq(prev.stack, 1, depth(menu_index))
        /\ Calls("entry") = <<>>
        /\ Calls("handler") = <<>>

\* `exit` with a word after it left a menu that has an exit function: one
\* call of that function
C22_Witness ==
    /\ ExitLine
    /\ Len(split_whitespace(TheLine)) = 2
    /\ Menus[TheMenu].exit
    /\ Len(Calls("exit")) = 1
    /\ get_menu(menu_index) # TheMenu

\* C23: processing a byte 0x0A changes nothing: the bytes in the buffer,
\* the cursor and the menu stack stay, nothing is written, no line is
\* completed and no handler, entry or exit function is called.
C23_LineFeedIsNoOp ==
    [][lastByte' = LF =>
        /\ buffer' = buffer
        /\ used' = used
        /\ menu_index' = menu_index
        /\ out' = <<>>
        /\ lastLine' = <<>>
        /\ NoCallsNext]_vars

\* 0x0A was taken in a sub-menu with part of a line typed
C23_Witness ==
    /\ lastByte = LF
    /\ menu_index # <<>>
    /\ used > 0
    /\ buffer = SubSeq(buffer, 1, used)
    /\ out = <<>>
    /\ lastLine = <<>>

\* the last step took the 0x0D that ends a line whose only token is the
\* command word of a callback item
WordOnlyLine ==
    /\ LineEnded
    /\ Names(prev.word, prev.stack, "Callback")
    /\ split_whitespace(TheLine) = <<prev.word>>

\* C24: for a line that consists of the command word of a callback item
\* only, what call_function does is what its branch for a plain command
\* without arguments does: the handler is called with an empty argument
\* list when the item has no Mandatory parameter, and "insufficient
\* arguments" is written and nothing called otherwise.
C24_PlainCommandAgrees ==
    WordOnlyLine =>
        /\ Decisions(out) = NoArgumentsPath(TheM, TheMenu, TheItem).out
        /\ TheM = 0 => Calls("handler") = <<Handler(TheMenu, TheItem, <<>>)>>
        /\ TheM > 0 => (HasOut("Insufficient") /\ Calls("handler") = <<>>)

\* a step in which a call of process begins or returns
CallBoundary == pc' # pc

\* C25: what a byte sequence does is the same however it is split over
\* calls of process: every step of process called batch by batch is, on the
\* Runner and on what is written and called, a step of one call that is
\* given all the bytes, or no step at all; where a call begins or returns,
\* buffer, cursor and menu stack are kept, so a partial line waits in the
\* buffer for the next call.
C25_BatchesAsOneCall ==
    /\ [][Next]_rvars
    /\ [][CallBoundary => UNCHANGED <<buffer, used, menu_index, out, lastLine>>]_vars

\* process returned with part of a line typed in a sub-menu
C25_Witness ==
    /\ pc = "idle"
    /\ ~panicked
    /\ menu_index # <<>>
    /\ used > 1
    /\ lastByte \notin ControlBytes

\* the tokens as the text of a line, each after one space
RECURSIVE Spaced(_)
Spaced(tokens) ==
    IF tokens = <<>> THEN <<>> ELSE Sp(Head(tokens)) \o Spaced(Tail(tokens))

\* a callback item with the parameter list argument_finder is given
AnItem == Callback(<<"i">>, fparams)

\* call_function, given the line of that item's command word and the
\* argument list, calls the handler with the argument list
HandlerInvoked ==
    call_function(fparams, "root", AnItem, AnItem.command \o Spaced(fargs)).out
        = <<Handler("root", AnItem, fargs)>>

\* no two parameters of the list carry the same name
DistinctNames ==
    \A i, j \in 1..Len(fparams) :
        fparams[i].parameter_name = fparams[j].parameter_name => i = j

\* C26: when call_function calls the handler of an item with an argument
\* list, argument_finder on that item and list returns a present value,
\* not None and not an error, for the name of every Mandatory parameter,
\* whatever the kinds and the order of the parameters (their names
\* distinct).
C26_MandatoryResolved ==
    (AskedIs("Mandatory") /\ DistinctNames /\ HandlerInvoked)
        => (fresult.tag = "Some" /\ fresult.val \in {fargs[i] : i \in 1..Len(fargs)})

\* a Mandatory parameter declared after an Optional one is resolved in an
\* argument list that has a flag in it
C26_Witness ==
    /\ AskedIs("Mandatory")
    /\ DistinctNames
    /\ HandlerInvoked
    /\ Len(fparams) >= 2
    /\ fparams[1].kind # "Mandatory"
    /\ \E i \in 1..Len(fargs) : StartsWithDashes(fargs[i])
    /\ fresult.tag = "Some"

\* the difference of two depths
DepthChange(a, b) == IF a >= b THEN a - b ELSE b - a

\* C27: handlers, entry and exit functions and changes of the menu stack
\* happen only while a byte 0x0D is processed: any other byte leaves the
\* stack as it is and calls nothing; one byte 0x0D calls at most one
\* handler and at most one entry or exit function and changes the depth by
\* at most one.
C27_OnlyCRActs ==
    [][/\ lastByte' # CR => (menu_index' = menu_index /\ NoCallsNext)
       /\ lastByte' = CR =>
            /\ Len(CallsNext("handler")) <= 1
            /\ Len(CallsNext("entry")) + Len(CallsNext("exit")) <= 1
            /\ DepthChange(depth(menu_index'), depth(menu_index)) <= 1]_vars

\* a 0x0D entered the second sub-menu with one call of an entry function
C27_Witness ==
    /\ lastByte = CR
    /\ depth(menu_index) = 2
    /\ depth(prev.stack) = 1
    /\ Len(Calls("entry")) = 1
    /\ Calls("handler") = <<>>
    /\ Calls("exit") = <<>>

\* a name that no parameter list of the model declares
OtherName == <<"z">>

\* the first parameter of the list that carries the name asked for
FirstCarrier == CHOOSE i \in Carriers(fparams, fname) :
                    \A j \in Carriers(fparams, fname) : i <= j

\* the parameter list with every later parameter of that name renamed, its
\* kind and its place kept
OnlyFirstCarrier ==
    [i \in 1..Len(fparams) |->
        IF i \in Carriers(fparams, fname) /\ i # FirstCarrier
        THEN Param(fparams[i].kind, OtherName)
        ELSE fparams[i]]

\* C28: argument_finder resolves the name against the first parameter, in
\* declaration order, that carries it: when several parameters carry the
\* name, the result is the one the list gives in which only the first of
\* them carries it.
C28_FirstDeclaredWins ==
    (fresult # Pending /\ Carriers(fparams, fname) # {})
        => fresult = argument_finder(OnlyFirstCarrier, fargs, fname)

====
